---- MODULE Spec2Model ----
(***************************************************************************)
(* Model of src/src/App.tsx: the 2D light-ray tracer (vector algebra,      *)
(* ray/segment and ray/disc tests, reflection, refraction, the bounded     *)
(* bounce loop) and the React component that owns the scene and the        *)
(* solved flag.                                                            *)
(*                                                                         *)
(* Numbers.  The program computes in IEEE doubles.  The model computes in  *)
(* exact arithmetic over the numbers (p + q*sqrt(n)) / d with integers     *)
(* p, q, d > 0 and a square-free n >= 2, in lowest terms: <<p, q, d>> when *)
(* n = 2 or q = 0, <<p, q, d, n>> otherwise.  For one n these are closed   *)
(* under + - * / and comparison; they contain the cosines and sines of the *)
(* multiples of 45 degrees, the refraction indices, every constant of the  *)
(* program and the square root of every rational number.  A value of the   *)
(* model is the real-number value of what the program computes, without    *)
(* the rounding of doubles (about 1e-16 relative); no root is approximated.*)
(* What has no such value is outside the model, and TLC stops on it: a sum *)
(* or product of roots of two different n, the root of a number with       *)
(* q # 0 that is not a square of such a number (a nested radical, as the  *)
(* length of the normal where a prism is hit off its axis at an irrational *)
(* distance), and a computation whose exact terms pass the 32 bits of      *)
(* TLC's integers.  An angle is kept as its cosine and its sine.           *)
(***************************************************************************)
EXTENDS Integers, Sequences, FiniteSets, TLC

(***************************************************************************)
(* Exact numbers (p + q*sqrt(n)) / d, d > 0, lowest terms.                 *)
(* A value computed once and used several times is the parameter of a      *)
(* local operator (LET F(x) == ... IN F(e)), as a const is in the program. *)
(***************************************************************************)
Abs(n) == IF n < 0 THEN -n ELSE n

RECURSIVE GCD(_, _)
GCD(a, b) == IF b = 0 THEN a ELSE GCD(b, a % b)

\* Lowest terms, for d > 0; the radicand n is written when it is not 2 and
\* q # 0.
Surd(p, q, d, n) ==
  LET Reduced(g) ==
        IF q = 0 \/ n = 2 THEN <<p \div g, q \div g, d \div g>>
        ELSE <<p \div g, q \div g, d \div g, n>>
  IN  Reduced(GCD(GCD(Abs(p), Abs(q)), d))

Num(p, q, d) == Surd(p, q, d, 2)
Rat(n, d) == Num(n, 0, d)
NInt(n) == <<n, 0, 1>>

\* The radicand of a number.
Rad(a) == IF Len(a) = 4 THEN a[4] ELSE 2

\* No number of the model: evaluating it stops TLC.
NoNumber(a, b) == CHOOSE x \in {} : x = <<a, b>>

\* The radicand of a sum or product of a and b.
Radical(a, b) ==
  IF a[2] = 0 THEN Rad(b)
  ELSE IF b[2] = 0 \/ Rad(a) = Rad(b) THEN Rad(a)
  ELSE NoNumber(a, b)

NNeg(a) == [a EXCEPT ![1] = -a[1], ![2] = -a[2]]
\* Sums over the least common denominator, products reduced crosswise
\* first: the intermediate integers stay small.
NAdd(a, b) ==
  LET Over(g, n) ==
        Surd(a[1] * (b[3] \div g) + b[1] * (a[3] \div g),
             a[2] * (b[3] \div g) + b[2] * (a[3] \div g), (a[3] \div g) * b[3], n)
  IN  Over(GCD(a[3], b[3]), Radical(a, b))

NSub(a, b) == NAdd(a, NNeg(b))

NMul(a, b) ==
  LET Cross(g, h, n) ==
        Surd((a[1] \div g) * (b[1] \div h) + ((a[2] \div g) * (b[2] \div h)) * n,
             (a[1] \div g) * (b[2] \div h) + (a[2] \div g) * (b[1] \div h),
             (a[3] \div h) * (b[3] \div g), n)
  IN  Cross(GCD(GCD(Abs(a[1]), Abs(a[2])), b[3]), GCD(GCD(Abs(b[1]), Abs(b[2])), a[3]),
            Radical(a, b))

\* Integer square root (floor), by bisection below 46341 = ceil(sqrt(2^31)).
RECURSIVE ISqrtIn(_, _, _)
ISqrtIn(n, lo, hi) ==
  IF hi - lo <= 1 THEN lo
  ELSE IF ((lo + hi) \div 2) * ((lo + hi) \div 2) <= n
    THEN ISqrtIn(n, (lo + hi) \div 2, hi)
  ELSE ISqrtIn(n, lo, (lo + hi) \div 2)

ISqrt(n) == ISqrtIn(n, 0, 46341)

IsSquare(n) == LET Squares(r) == r * r = n IN n >= 0 /\ Squares(ISqrt(n))

\* Sign of p*p - n*q*q, for p >= 0, q > 0 and n not a square, without
\* squaring large numbers: sqrt(n) lies between r and r + 1, r = ISqrt(n).
CmpSq(p, q, n) ==
  LET Between(r) ==
        IF p \div q >= r + 1 THEN 1
        ELSE IF p \div q < r THEN -1
        ELSE IF p * p > n * q * q THEN 1 ELSE -1
  IN  Between(ISqrt(n))

NSign(a) ==
  IF a[1] >= 0 /\ a[2] >= 0 THEN (IF a[1] = 0 /\ a[2] = 0 THEN 0 ELSE 1)
  ELSE IF a[1] <= 0 /\ a[2] <= 0 THEN -1
  ELSE IF a[1] > 0 THEN CmpSq(a[1], -a[2], Rad(a))
  ELSE -CmpSq(-a[1], a[2], Rad(a))

\* 1 / a, for a # 0: (p - q*sqrt(n)) * d / (p*p - n*q*q).
NInv(a) ==
  LET Over(m) ==
        IF m > 0 THEN Surd(a[1] * a[3], -(a[2] * a[3]), m, Rad(a))
        ELSE Surd(-(a[1] * a[3]), a[2] * a[3], -m, Rad(a))
  IN  IF a[2] = 0 THEN (IF a[1] > 0 THEN <<a[3], 0, a[1]>> ELSE <<-a[3], 0, -a[1]>>)
      ELSE Over(a[1] * a[1] - Rad(a) * a[2] * a[2])

NDiv(a, b) == NMul(a, NInv(b))

NLt(a, b) == NSign(NSub(a, b)) < 0
NLe(a, b) == NSign(NSub(a, b)) <= 0
NGt(a, b) == NSign(NSub(a, b)) > 0
NGe(a, b) == NSign(NSub(a, b)) >= 0
NAbs(a) == IF NSign(a) < 0 THEN NNeg(a) ELSE a

(***************************************************************************)
(* Math.sqrt.  The root of a rational n / d is f * sqrt(m) / g with whole  *)
(* f, g and a square-free m: a number of the model.  The root of           *)
(* (p + q*sqrt(n)) / d with q # 0 is a number of the model when it is      *)
(* x + y*sqrt(n) with x, y rational, and no number of the model otherwise. *)
(* NaN for a negative number.                                              *)
(***************************************************************************)
NaN == <<0, 0, 0>>

\* The largest f with f*f dividing n, for n >= 1: n = f*f*m, m square-free.
SquarePart(n) ==
  LET Largest(r) ==
        IF r * r = n THEN r
        ELSE CHOOSE f \in 1..r :
               n % (f * f) = 0 /\ \A g \in (f + 1)..r : n % (g * g) # 0
  IN  Largest(ISqrt(n))

\* sqrt(n / d), n / d in lowest terms:
\* f*sqrt(m) / (g*sqrt(k)) = f*sqrt(m*k) / (g*k), n = f*f*m, d = g*g*k.
RatSqrt(n, d) ==
  LET Parts(f, g) ==
        LET Over(m, k) == IF m * k = 1 THEN <<f, 0, g>> ELSE Surd(0, f, g * k, m * k)
        IN  Over(n \div (f * f), d \div (g * g))
  IN  IF n < 0 THEN NaN
      ELSE IF n = 0 THEN <<0, 0, 1>>
      ELSE Parts(SquarePart(n), SquarePart(d))

\* The root x + y*sqrt(n) of (p + q*sqrt(n)) / d, q # 0, when x and y are
\* rational: x*x is (p + s) / 2d or (p - s) / 2d with s*s = p*p - n*q*q, and
\* y = q / (2*d*x).  <<>> when there is none.
MixedRoot(a) ==
  LET Positive(r) == IF NSign(r) < 0 THEN NNeg(r) ELSE r
      Join(x, y) == Positive(Surd(x[1] * y[3], y[1] * x[2], x[2] * y[3], Rad(a)))
      With(x) == IF x = <<>> THEN <<>> ELSE Join(x, Rat(a[2] * x[2], 2 * a[3] * x[1]))
      Pick(u, v, un, ud, vn, vd) ==
        IF u[1] > 0 /\ un * un = u[1] /\ ud * ud = u[3] THEN <<un, ud>>
        ELSE IF v[1] > 0 /\ vn * vn = v[1] /\ vd * vd = v[3] THEN <<vn, vd>>
        ELSE <<>>
      Try(u, v) ==
        With(Pick(u, v, ISqrt(Abs(u[1])), ISqrt(u[3]), ISqrt(Abs(v[1])), ISqrt(v[3])))
      From(m, s) ==
        IF m < 0 \/ s * s # m THEN <<>>
        ELSE Try(Rat(a[1] + s, 2 * a[3]), Rat(a[1] - s, 2 * a[3]))
      Of(m) == From(m, ISqrt(Abs(m)))
  IN  Of(a[1] * a[1] - Rad(a) * a[2] * a[2])

NSqrt(a) ==
  LET Mixed(r) == IF r # <<>> THEN r ELSE NoNumber(a, a)
  IN  IF a[2] = 0 THEN RatSqrt(a[1], a[3])
      ELSE IF NSign(a) < 0 THEN NaN
      ELSE Mixed(MixedRoot(a))

(***************************************************************************)
(* Vector2 and the vector algebra (lines 24-41)                            *)
(***************************************************************************)
Vec(x, y) == [x |-> x, y |-> y]
IVec(x, y) == [x |-> <<x, 0, 1>>, y |-> <<y, 0, 1>>]

add(v1, v2) == Vec(NAdd(v1.x, v2.x), NAdd(v1.y, v2.y))
sub(v1, v2) == Vec(NSub(v1.x, v2.x), NSub(v1.y, v2.y))
scale(s, v) == Vec(NMul(s, v.x), NMul(s, v.y))
dot(v1, v2) == NAdd(NMul(v1.x, v2.x), NMul(v1.y, v2.y))

normalize(v) ==
  LET Unit(len) ==
        IF NSign(len) > 0 THEN Vec(NDiv(v.x, len), NDiv(v.y, len)) ELSE IVec(0, 0)
  IN  Unit(NSqrt(NAdd(NMul(v.x, v.x), NMul(v.y, v.y))))

(***************************************************************************)
(* Angles.  An angle is kept as [cos, sin], which is all the program takes *)
(* of one (Math.cos and Math.sin, lines 33-34).  Eighths(k) is the angle   *)
(* k * Math.PI / 4.                                                        *)
(***************************************************************************)
CosTable == <<<<1, 0, 1>>, <<0, 1, 2>>, <<0, 0, 1>>, <<0, -1, 2>>,
              <<-1, 0, 1>>, <<0, -1, 2>>, <<0, 0, 1>>, <<0, 1, 2>>>>

Eighths(k) == [cos |-> CosTable[(k % 8) + 1], sin |-> CosTable[((k + 6) % 8) + 1]]

Cos(angle) == angle.cos
Sin(angle) == angle.sin

\* Math.atan2(dy, dx) (line 265): the angle of the direction (dx, dy), 0 for
\* (0, 0).
Atan2(dy, dx) ==
  LET Of(u) == [cos |-> u.x, sin |-> u.y]
  IN  IF NSign(dx) = 0 /\ NSign(dy) = 0 THEN Eighths(0)
      ELSE Of(normalize(Vec(dx, dy)))

rotate(v, angle) ==
  LET Turned(cos, sin) ==
        Vec(NSub(NMul(v.x, cos), NMul(v.y, sin)), NAdd(NMul(v.x, sin), NMul(v.y, cos)))
  IN  Turned(Cos(angle), Sin(angle))

reflect(incident, normal) ==
  LET About(normalizedNormal) ==
        sub(incident, scale(NInt(2), scale(dot(incident, normalizedNormal),
                                           normalizedNormal)))
  IN  About(normalize(normal))

(***************************************************************************)
(* refract (lines 43-53).  null is [isNull |-> TRUE].                      *)
(***************************************************************************)
NullVec == [isNull |-> TRUE, v |-> IVec(0, 0)]
Some(v) == [isNull |-> FALSE, v |-> v]

refract(incident, normal, eta) ==
  LET Snell(ni, nn, cosTheta, sin2Phi) ==
        IF NSign(cosTheta) < 0 THEN NullVec
        ELSE IF NGt(sin2Phi, NInt(1)) THEN NullVec
        ELSE Some(add(scale(eta, ni),
                      scale(NAdd(NMul(NNeg(eta), cosTheta),
                                 NSqrt(NSub(NInt(1), sin2Phi))), nn)))
      WithCos(ni, nn, cosTheta) ==
        Snell(ni, nn, cosTheta,
              NMul(NMul(eta, eta), NSub(NInt(1), NMul(cosTheta, cosTheta))))
      WithUnits(ni, nn) == WithCos(ni, nn, NNeg(dot(ni, nn)))
  IN  WithUnits(normalize(incident), normalize(normal))

(***************************************************************************)
(* OpticObject (lines 16-22): [id, type, position, rotation, size]; Obj    *)
(* takes the rotation in eighths of a turn.                                *)
(* getMirrorSegment (lines 55-64) and lineIntersect (lines 66-75).         *)
(***************************************************************************)
Obj(id, type, x, y, rotation, size) ==
  [id |-> id, type |-> type, position |-> IVec(x, y), rotation |-> Eighths(rotation),
   size |-> size]

getMirrorSegment(obj) ==
  [p1 |-> add(obj.position, rotate(Vec(NNeg(Rat(obj.size, 2)), NInt(0)), obj.rotation)),
   p2 |-> add(obj.position, rotate(Vec(Rat(obj.size, 2), NInt(0)), obj.rotation)),
   normal |-> rotate(IVec(0, 1), obj.rotation)]

\* The parallel threshold 1e-6 of line 68.
ParallelEps == <<1, 0, 1000000>>

NoIntersection == [point |-> NullVec, t |-> NInt(-1), u |-> NInt(-1)]

lineIntersect(origin, dir, p1, p2) ==
  LET Result(t, u) ==
        IF NSign(t) >= 0 /\ NSign(u) >= 0 /\ NLe(u, NInt(1))
          THEN [point |-> Some(add(origin, scale(t, dir))), t |-> t, u |-> u]
          ELSE NoIntersection
      Solve(denom) ==
        IF NLt(NAbs(denom), ParallelEps) THEN NoIntersection
        ELSE Result(NDiv(NSub(NMul(NSub(origin.x, p1.x), NSub(p2.y, p1.y)),
                              NMul(NSub(origin.y, p1.y), NSub(p2.x, p1.x))), denom),
                    NDiv(NNeg(NSub(NMul(dir.x, NSub(origin.y, p1.y)),
                                   NMul(dir.y, NSub(origin.x, p1.x)))), denom))
  IN  Solve(NSub(NMul(dir.x, NSub(p2.y, p1.y)), NMul(dir.y, NSub(p2.x, p1.x))))

(***************************************************************************)
(* traceRay (lines 77-161)                                                 *)
(***************************************************************************)
COLORS == <<"red", "orange", "yellow", "green", "blue", "indigo", "violet">>

REFRACTION_INDICES ==
  <<Rat(1331, 1000), Rat(1337, 1000), Rat(1343, 1000), Rat(1352, 1000),
    Rat(1369, 1000), Rat(1381, 1000), Rat(1393, 1000)>>

maxBounces == 10
maxLength == 1000

\* 0.01 of lines 96, 114 and 117; 0.1 of line 136; 0.05 of line 145.
MinAdvance == Rat(1, 100)
MirrorNudge == Rat(1, 10)
PrismNudge == Rat(1, 20)

\* minT = Infinity, hitNormal = hitPoint = hitType = null (lines 86-89).
NoHit ==
  [hitType |-> "none", minT |-> NInt(0), hitNormal |-> IVec(0, 0),
   hitPoint |-> IVec(0, 0)]

\* t < minT, where minT is Infinity until something was hit.
BelowMinT(t, h) == h.hitType = "none" \/ NLt(t, h.minT)

IsMirror(o) == o.type = "mirror" /\ o.id # "light1" /\ o.id # "target1"
IsPrism(o) == o.type = "prism"

\* The body of the loop over the mirrors (lines 94-101).
MirrorTest(h, obj, origin, dir) ==
  LET Test(seg, inter) ==
        IF /\ ~inter.point.isNull
           /\ NGt(inter.t, MinAdvance)
           /\ BelowMinT(inter.t, h)
           /\ NSign(dot(dir, seg.normal)) < 0
          THEN [hitType |-> "mirror", minT |-> inter.t, hitNormal |-> seg.normal,
                hitPoint |-> inter.point.v]
          ELSE h
      Against(seg) == Test(seg, lineIntersect(origin, dir, seg.p1, seg.p2))
  IN  Against(getMirrorSegment(obj))

\* The body of the loop over the prisms (lines 107-126), a = 1.
PrismTest(h, obj, origin, dir) ==
  LET Outside(t, hitP, radialNormal) ==
        IF NSign(dot(dir, radialNormal)) < 0
          THEN [hitType |-> "prism", minT |-> t, hitNormal |-> radialNormal,
                hitPoint |-> hitP]
          ELSE h
      At(t, hitP) == Outside(t, hitP, normalize(sub(hitP, obj.position)))
      Accept(t) ==
        IF NGt(t, MinAdvance) /\ BelowMinT(t, h)
          THEN At(t, add(origin, scale(t, dir)))
          ELSE h
      Choose(b, root, t) ==
        Accept(IF NLt(t, MinAdvance) THEN NDiv(NAdd(NNeg(b), root), NInt(2)) ELSE t)
      Roots(b, root) == Choose(b, root, NDiv(NSub(NNeg(b), root), NInt(2)))
      Discriminant(b, disc) == IF NSign(disc) < 0 THEN h ELSE Roots(b, NSqrt(disc))
      Quadratic(b, c) == Discriminant(b, NSub(NMul(b, b), NMul(NInt(4), c)))
      From(oc) ==
        Quadratic(NMul(NInt(2), dot(oc, dir)),
                  NSub(dot(oc, oc), NMul(Rat(obj.size, 2), Rat(obj.size, 2))))
  IN  From(sub(obj.position, origin))

RECURSIVE ScanMirrors(_, _, _, _, _)
ScanMirrors(objects, i, h, origin, dir) ==
  IF i > Len(objects) THEN h
  ELSE ScanMirrors(objects, i + 1,
                   IF IsMirror(objects[i]) THEN MirrorTest(h, objects[i], origin, dir)
                   ELSE h,
                   origin, dir)

RECURSIVE ScanPrisms(_, _, _, _, _)
ScanPrisms(objects, i, h, origin, dir) ==
  IF i > Len(objects) THEN h
  ELSE ScanPrisms(objects, i + 1,
                  IF IsPrism(objects[i]) THEN PrismTest(h, objects[i], origin, dir)
                  ELSE h,
                  origin, dir)

\* The nearest hit of one iteration (lines 86-127).
FindHit(origin, dir, objects) ==
  ScanPrisms(objects, 1, ScanMirrors(objects, 1, NoHit, origin, dir), origin, dir)

\* The new direction after a hit (lines 133-144).
Bounce(dir, h, colorIndex) ==
  LET Turn(n, refracted) ==
        IF h.hitType = "mirror" THEN normalize(reflect(dir, n))
        ELSE IF ~refracted.isNull THEN normalize(refracted.v)
        ELSE normalize(reflect(dir, n))
  IN  Turn(normalize(h.hitNormal),
           refract(dir, h.hitNormal, NInv(REFRACTION_INDICES[colorIndex + 1])))

\* Mutations of the loop test: one pass too many, one pass too few.
LoopTestInclusive(bounce) == bounce <= maxBounces
LoopTestShort(bounce) == bounce < maxBounces - 1

\* bounce < maxBounces (line 85).
LoopTest(bounce) == bounce < maxBounces

\* Mutation of the length check: the check left out.
OverBudgetNever(totalLength) == FALSE

\* totalLength > maxLength (line 157).
OverBudget(totalLength) == NGt(totalLength, NInt(maxLength))

\* Mutation of the remaining budget: the distance travelled forgotten.
RemainingFull(totalLength) == NInt(maxLength)

\* maxLength - totalLength (line 149) and remaining > 0 (line 150).
Remaining(totalLength) == NSub(NInt(maxLength), totalLength)
EmitFinal(remaining) == NSign(remaining) > 0

\* The state of the loop: the locals of traceRay, and where the loop stands:
\* exit is "run" while it runs, then "nohit" (break of line 154), "length"
\* (break of line 157) or "bounces" (the test of line 85 failed).
TraceStart(initialOrigin, initialDir) ==
  [origin |-> initialOrigin, dir |-> normalize(initialDir), totalLength |-> NInt(0),
   segments |-> <<>>, bounce |-> 0, exit |-> "run", lastHit |-> "none"]

\* One pass of the for loop: the test of line 85 and the body (lines 86-157).
LoopBody(st, colorIndex, objects) ==
  LET Segment(end) == [start |-> st.origin, end |-> end, color |-> COLORS[colorIndex + 1]]
      Hit(h, n, total) ==
        [origin |-> add(h.hitPoint,
                        scale(IF h.hitType = "mirror" THEN MirrorNudge ELSE PrismNudge, n)),
         dir |-> Bounce(st.dir, h, colorIndex),
         totalLength |-> total,
         segments |-> Append(st.segments, Segment(add(st.origin, scale(h.minT, st.dir)))),
         bounce |-> IF OverBudget(total) THEN st.bounce ELSE st.bounce + 1,
         exit |-> IF OverBudget(total) THEN "length" ELSE "run",
         lastHit |-> h.hitType]
      Escape(remaining) ==
        [st EXCEPT
           !.segments = IF EmitFinal(remaining)
                          THEN Append(st.segments,
                                      Segment(add(st.origin, scale(remaining, st.dir))))
                          ELSE st.segments,
           !.exit = "nohit",
           !.lastHit = "none"]
      Body(h) ==
        IF h.hitType # "none"
          THEN Hit(h, normalize(h.hitNormal), NAdd(st.totalLength, h.minT))
          ELSE Escape(Remaining(st.totalLength))
  IN  IF ~LoopTest(st.bounce) THEN [st EXCEPT !.exit = "bounces"]
      ELSE Body(FindHit(st.origin, st.dir, objects))

RECURSIVE RunLoop(_, _, _)
RunLoop(st, colorIndex, objects) ==
  IF st.exit # "run" THEN st
  ELSE RunLoop(LoopBody(st, colorIndex, objects), colorIndex, objects)

traceRay(initialOrigin, initialDir, colorIndex, objects) ==
  [segments |-> RunLoop(TraceStart(initialOrigin, initialDir), colorIndex, objects).segments]

(***************************************************************************)
(* The component App (lines 166-224): the scene, the solved flag and the   *)
(* query that fills it.                                                    *)
(***************************************************************************)
\* The initial scene of useState (lines 169-172) and of the Puzzle 1 button
\* (lines 355-358).
Puzzle1 ==
  <<Obj("light1", "light", 100, 300, 0, 20), Obj("target1", "target", 600, 100, 0, 30)>>

RECURSIVE Concat(_, _)
Concat(seqs, i) == IF i > Len(seqs) THEN <<>> ELSE seqs[i] \o Concat(seqs, i + 1)

\* Mutation of the emission: along the light's rotation.
EmitDirRotated(light) == rotate(IVec(1, 0), light.rotation)

\* The direction every light emits in: the literal {x: 1, y: 0} of line 206.
EmitDir(light) == IVec(1, 0)

\* computeRays (lines 202-211): every light, every colour, in that order.
LightTraces(light, objects) ==
  Concat([k \in 1..Len(COLORS) |->
            traceRay(light.position, EmitDir(light), k - 1, objects).segments], 1)

computeRays(objects) ==
  Concat([i \in 1..Len(objects) |->
            IF objects[i].type = "light" THEN LightTraces(objects[i], objects) ELSE <<>>], 1)

\* objects.find(o => o.type === 'target') (line 215): the index of the first
\* target, 0 when there is none.
FindTarget(objects) ==
  IF \E i \in 1..Len(objects) : objects[i].type = "target"
    THEN CHOOSE i \in 1..Len(objects) :
           /\ objects[i].type = "target"
           /\ \A j \in 1..(i - 1) : objects[j].type # "target"
    ELSE 0

\* The test of lines 217-221 on one segment.
NearTarget(seg, target) ==
  LET Within(dx, dy, reach) == NLt(NAdd(NMul(dx, dx), NMul(dy, dy)), NMul(reach, reach))
  IN  Within(NSub(seg.end.x, target.position.x), NSub(seg.end.y, target.position.y),
             NAdd(Rat(target.size, 2), NInt(5)))

\* Mutation of the effect: solved left as it was.
SolvedKept(objects, old) == old

\* The value the effect of lines 213-224 gives to solved (old when no target).
SolvedAfterEffect(objects, old) ==
  LET Hit(segs, ti) ==
        IF ti = 0 THEN old
        ELSE \E k \in 1..Len(segs) : NearTarget(segs[k], objects[ti])
  IN  Hit(computeRays(objects), FindTarget(objects))

(***************************************************************************)
(* State.                                                                  *)
(*   objects, dragging, rotating, solved : the useState cells of App as    *)
(*     the last render committed them (lines 169-177; ctx and puzzle are   *)
(*     never read by the code modelled here, mousePos is only written:     *)
(*     they are left out);                                                 *)
(*   update : the state updates a handler has queued and React has not     *)
(*     rendered yet: <<>> or <<[objects, dragging, rotating, replaced]>>,  *)
(*     replaced telling that setObjects was called;                        *)
(*   effect : the effect of lines 213-224 is pending: React has committed  *)
(*     a render with new objects and has not yet run the effect;           *)
(*   events : how many UI events were handled;                             *)
(*   now : the clock of Date.now() (line 193) when an object was last      *)
(*     added, in milliseconds from 1000 before the first one;              *)
(*   pc, colorIndex, loop : a call of traceRay in progress: where it       *)
(*     stands, its colorIndex argument and its locals (its objects         *)
(*     argument is the variable objects);                                  *)
(*   call, ret : the last direct call of a pure function and its result.   *)
(***************************************************************************)
VARIABLES objects, dragging, rotating, solved, update, effect, events, now, pc,
          colorIndex, loop, call, ret

vars ==
  <<objects, dragging, rotating, solved, update, effect, events, now, pc, colorIndex,
    loop, call, ret>>
appVars == <<objects, dragging, rotating, solved, update, effect, events, now>>
traceVars == <<pc, colorIndex, loop>>
fnVars == <<call, ret>>

Null == "null"

(***************************************************************************)
(* The component.  A handler reads the cells of the last render and queues *)
(* its updates (Queue); React then renders and commits them (render), and  *)
(* runs the effect of lines 213-224 after the commit when objects was      *)
(* replaced (RunEffect): the effect depends on objects and on computeRays, *)
(* which depends on objects.  A handler may run while the effect of the    *)
(* commit before is pending; React runs a pending effect before it renders *)
(* again, so that the effect's setSolved is in that render (Flushed).      *)
(***************************************************************************)
\* How many objects the Add buttons may add to the two of Puzzle 1, and how
\* many UI events are handled.
MaxAdded == 1
MaxEvents == 5

\* Where the mouse can be (clientX - rect.left, clientY - rect.top): on the
\* spot where objects are added, 15 to the right of the light of Puzzle 1,
\* 25 above its target, and where the ray of Puzzle 1 ends.
MousePts == {<<300, 300>>, <<115, 300>>, <<600, 75>>, <<1100, 300>>}

\* Date.now().toString() (line 193).  Only equality of ids matters.  The
\* clock never goes back: the id of an object differs from the id of every
\* object added before it, unless it is added in the millisecond of the one
\* added last; Elapsed is how far the clock has moved since then.
Elapsed == {0, 1}
DateNow(elapsed) == now + elapsed

\* solved in the next render: a pending effect has run before it.
Flushed == IF effect THEN SolvedAfterEffect(objects, solved) ELSE solved

\* The effect of lines 213-224, after the commit.
RunEffect ==
  /\ effect
  /\ update = <<>>
  /\ solved' = SolvedAfterEffect(objects, solved)
  /\ effect' = FALSE
  /\ UNCHANGED <<objects, dragging, rotating, update, events, now, traceVars, fnVars>>

\* The render of the queued updates and its commit.
render ==
  /\ update # <<>>
  /\ objects' = update[1].objects
  /\ dragging' = update[1].dragging
  /\ rotating' = update[1].rotating
  /\ solved' = Flushed
  /\ effect' = update[1].replaced
  /\ update' = <<>>
  /\ UNCHANGED <<events, now, traceVars, fnVars>>

\* A handler runs on an event, its updates queued for the render that
\* follows.
Queue(objs, drag, rot, replaced) ==
  /\ update = <<>>
  /\ events < MaxEvents
  /\ events' = events + 1
  /\ update' = <<[objects |-> objs, dragging |-> drag, rotating |-> rot,
                  replaced |-> replaced]>>
  /\ UNCHANGED <<objects, dragging, rotating, solved, effect, traceVars, fnVars>>

\* addObject (lines 191-200), the clock at time.  The first object is added
\* after the clock's origin.
addObject(type, time) ==
  /\ Len(objects) < 2 + MaxAdded
  /\ time > 1000
  /\ now' = time
  /\ Queue(Append(objects, Obj(ToString(time), type, 300, 300, 0, 40)), dragging,
           rotating, TRUE)

\* The Puzzle 1 button (lines 355-358).
resetPuzzle == Queue(Puzzle1, dragging, rotating, TRUE) /\ UNCHANGED now

\* The first object the press lands on (lines 238-247), 0 when none.
Grabbed(objs, x, y) ==
  LET near(i) ==
        LET Within(dx, dy) ==
              NLt(NSqrt(NAdd(NMul(dx, dx), NMul(dy, dy))),
                  NAdd(Rat(objs[i].size, 2), NInt(20)))
        IN  Within(NSub(NInt(x), objs[i].position.x), NSub(NInt(y), objs[i].position.y))
  IN  IF \E i \in 1..Len(objs) : near(i)
        THEN CHOOSE i \in 1..Len(objs) : near(i) /\ \A j \in 1..(i - 1) : ~near(j)
        ELSE 0

\* handleMouseDown (lines 231-249); setMousePos makes it render.
handleMouseDown(x, y, shiftKey) ==
  LET On(i) ==
        Queue(objects,
              IF i # 0 /\ ~shiftKey THEN objects[i].id ELSE dragging,
              IF i # 0 /\ shiftKey THEN objects[i].id ELSE rotating,
              FALSE)
  IN  On(Grabbed(objects, x, y)) /\ UNCHANGED now

\* updatePosition (lines 226-228).
updatePosition(objs, id, pos) ==
  [i \in 1..Len(objs) |->
     IF objs[i].id = id THEN [objs[i] EXCEPT !.position = pos] ELSE objs[i]]

\* objects.find(o => o.id === rotating) (line 261), 0 when none.
FindById(objs, id) ==
  IF \E i \in 1..Len(objs) : objs[i].id = id
    THEN CHOOSE i \in 1..Len(objs) :
           objs[i].id = id /\ \A j \in 1..(i - 1) : objs[j].id # id
    ELSE 0

\* The offset of the mouse from object i (lines 263-264).
OffsetX(objs, i, x) == NSub(NInt(x), objs[i].position.x)
OffsetY(objs, i, y) == NSub(NInt(y), objs[i].position.y)

\* The objects with the object of id rotating turned to the mouse (lines
\* 261-267).
Turned(objs, id, i, x, y) ==
  [j \in 1..Len(objs) |->
     IF objs[j].id = id
       THEN [objs[j] EXCEPT !.rotation = Atan2(OffsetY(objs, i, y), OffsetX(objs, i, x))]
       ELSE objs[j]]

\* handleMouseMove (lines 251-269); setMousePos makes it render.
handleMouseMove(x, y) ==
  LET Turn(i) == IF i # 0 THEN Turned(objects, rotating, i, x, y) ELSE objects
      Found(i) ==
        Queue(IF dragging # Null THEN updatePosition(objects, dragging, IVec(x, y))
              ELSE Turn(i),
              dragging, rotating, dragging # Null \/ i # 0)
  IN  /\ Found(IF dragging = Null /\ rotating # Null THEN FindById(objects, rotating)
                ELSE 0)
      /\ UNCHANGED now

\* handleMouseUp (lines 271-274); it renders when it changes a cell.
handleMouseUp ==
  IF dragging # Null \/ rotating # Null
    THEN Queue(objects, Null, Null, FALSE) /\ UNCHANGED now
    ELSE /\ update = <<>>
         /\ events < MaxEvents
         /\ events' = events + 1
         /\ UNCHANGED <<objects, dragging, rotating, solved, update, effect, now,
                        traceVars, fnVars>>

\* After the first commit (useState, lines 169-177), its effects pending.
InitUI ==
  /\ objects = Puzzle1
  /\ dragging = Null
  /\ rotating = Null
  /\ solved = FALSE
  /\ update = <<>>
  /\ effect = TRUE
  /\ events = 0
  /\ now = 1000
  /\ pc = "idle"
  /\ colorIndex = 0
  /\ loop = TraceStart(IVec(0, 0), IVec(1, 0))
  /\ call = [fn |-> "none"]
  /\ ret = [fn |-> "none"]

NextUI ==
  \/ \E type \in {"prism", "mirror"} : \E elapsed \in Elapsed :
       addObject(type, DateNow(elapsed))
  \/ resetPuzzle
  \/ \E m \in MousePts : \E shiftKey \in BOOLEAN : handleMouseDown(m[1], m[2], shiftKey)
  \/ \E m \in MousePts : handleMouseMove(m[1], m[2])
  \/ handleMouseUp
  \/ render
  \/ RunEffect

SpecUI == InitUI /\ [][NextUI]_vars

(***************************************************************************)
(* Calls of traceRay, one pass of its loop at a time.  The scene is the    *)
(* light and the target of Puzzle 1, the light on one of LightSpots, and   *)
(* up to MaxObstacles of the mirrors and prisms of ObstaclePool, as the    *)
(* Add buttons, drags and rotations leave them (size 40, whole positions,  *)
(* rotations that are multiples of 45 degrees).                            *)
(***************************************************************************)
MaxObstacles == 2

LightSpots == {<<100, 300>>, <<400, 300>>, <<1060, 300>>}

ObstaclePool ==
  <<Obj("1001", "mirror", 60, 340, 2, 40),
    Obj("1002", "mirror", 180, 260, -2, 40),
    Obj("1003", "mirror", 1000, 260, -2, 40),
    Obj("1004", "mirror", 300, 300, 1, 40),
    Obj("1005", "mirror", 60, 328, 1, 40),
    Obj("1006", "prism", 119, 300, 0, 40),
    Obj("1007", "prism", 300, 300, 0, 40)>>

RECURSIVE Chosen(_, _)
Chosen(S, i) ==
  IF i > Len(ObstaclePool) THEN <<>>
  ELSE (IF i \in S THEN <<ObstaclePool[i]>> ELSE <<>>) \o Chosen(S, i + 1)

Scenes ==
  {<<Obj("light1", "light", l[1], l[2], 0, 20), Puzzle1[2]>> \o Chosen(S, 1) :
     l \in LightSpots,
     S \in {T \in SUBSET (1..Len(ObstaclePool)) : Cardinality(T) <= MaxObstacles}}

\* The call traceRay(light.position, {x: 1, y: 0}, index, objects) of lines
\* 206 and 316, up to the loop (lines 78-83).
TraceCall(i, index) ==
  /\ pc = "idle"
  /\ objects[i].type = "light"
  /\ loop' = TraceStart(objects[i].position, EmitDir(objects[i]))
  /\ colorIndex' = index
  /\ pc' = "loop"
  /\ UNCHANGED <<appVars, fnVars>>

\* One pass of the for loop (lines 85-158).
TraceIterate ==
  /\ pc = "loop"
  /\ loop' = LoopBody(loop, colorIndex, objects)
  /\ pc' = IF loop'.exit = "run" THEN "loop" ELSE "done"
  /\ UNCHANGED <<appVars, colorIndex, fnVars>>

\* return { segments } (line 160).
TraceReturn ==
  /\ pc = "done"
  /\ pc' = "idle"
  /\ UNCHANGED <<appVars, colorIndex, loop, fnVars>>

InitTrace ==
  /\ objects \in Scenes
  /\ dragging = Null
  /\ rotating = Null
  /\ solved = SolvedAfterEffect(objects, FALSE)
  /\ update = <<>>
  /\ effect = FALSE
  /\ events = 0
  /\ now = 1000
  /\ pc = "idle"
  /\ colorIndex = 0
  /\ loop = TraceStart(IVec(0, 0), IVec(1, 0))
  /\ call = [fn |-> "none"]
  /\ ret = [fn |-> "none"]

NextTrace ==
  \/ \E i \in 1..Len(objects) : \E index \in 0..(Len(COLORS) - 1) : TraceCall(i, index)
  \/ TraceIterate
  \/ TraceReturn

SpecTrace == InitTrace /\ [][NextTrace]_vars

(***************************************************************************)
(* Direct calls of lineIntersect, of the prism test and of refract, on     *)
(* small sets of arguments whose square roots are numbers of the model.    *)
(***************************************************************************)
RayOrigins == {IVec(0, 0), IVec(0, 3)}
UnitDirs ==
  {IVec(1, 0), IVec(0, 1), IVec(-1, 0), IVec(0, -1),
   Vec(Rat(3, 5), Rat(4, 5)), Vec(Rat(-3, 5), Rat(-4, 5))}
Segs ==
  {<<IVec(5, -2), IVec(5, 2)>>, <<IVec(-5, -2), IVec(-5, 2)>>,
   <<IVec(5, 1), IVec(5, 5)>>, <<IVec(-5, 0), IVec(-5, 4)>>,
   <<IVec(1, 1), IVec(4, 1)>>, <<IVec(2, -2), IVec(6, 2)>>}

PrismOrigins == {IVec(100, 300), IVec(288, 300), IVec(300, 250), IVec(300, 300)}
Prisms == {Obj("1006", "prism", 300, 300, 0, 40), Obj("1007", "prism", 112, 300, 0, 40)}
AxisDirs == {IVec(1, 0), IVec(0, 1), IVec(-1, 0), IVec(0, -1)}
\* Rays through a prism's centre, and rays that meet a prism off its axis.
PrismCalls ==
  {<<origin, dir, obj>> : origin \in PrismOrigins, dir \in AxisDirs, obj \in Prisms}
    \cup {<<IVec(100, 300), IVec(1, 0), Obj("1008", "prism", 118, 324, 0, 80)>>,
          <<IVec(100, 300), IVec(1, 0), Obj("1009", "prism", 125, 324, 0, 80)>>,
          <<IVec(100, 300), Vec(Rat(3, 5), Rat(4, 5)), Obj("1008", "prism", 118, 324, 0, 80)>>,
          <<IVec(100, 300), Vec(Rat(5, 13), Rat(-12, 13)),
            Obj("1010", "prism", 125, 280, 0, 80)>>,
          <<IVec(100, 300), IVec(1, 0), Obj("1011", "prism", 140, 324, 0, 40)>>}

Etas == {Rat(3, 4), Rat(3, 5), NInt(1), Rat(5, 4), NInv(REFRACTION_INDICES[1])}

CallLineIntersect(origin, dir, seg) ==
  /\ call' = [fn |-> "lineIntersect", origin |-> origin, dir |-> dir,
              p1 |-> seg[1], p2 |-> seg[2]]
  /\ ret' = lineIntersect(origin, dir, seg[1], seg[2])
  /\ UNCHANGED <<appVars, traceVars>>

\* The prism test of lines 105-127 on one prism, nothing hit before it.
CallPrismTest(origin, dir, obj) ==
  /\ call' = [fn |-> "prismTest", origin |-> origin, dir |-> dir, obj |-> obj]
  /\ ret' = PrismTest(NoHit, obj, origin, dir)
  /\ UNCHANGED <<appVars, traceVars>>

CallRefract(incident, normal, eta) ==
  /\ call' = [fn |-> "refract", incident |-> incident, normal |-> normal, eta |-> eta]
  /\ ret' = refract(incident, normal, eta)
  /\ UNCHANGED <<appVars, traceVars>>

InitFn ==
  /\ objects = Puzzle1
  /\ dragging = Null
  /\ rotating = Null
  /\ solved = SolvedAfterEffect(Puzzle1, FALSE)
  /\ update = <<>>
  /\ effect = FALSE
  /\ events = 0
  /\ now = 1000
  /\ pc = "idle"
  /\ colorIndex = 0
  /\ loop = TraceStart(IVec(0, 0), IVec(1, 0))
  /\ call = [fn |-> "none"]
  /\ ret = [fn |-> "none"]

NextFn ==
  \/ \E origin \in RayOrigins : \E dir \in UnitDirs : \E seg \in Segs :
       CallLineIntersect(origin, dir, seg)
  \/ \E c \in PrismCalls : CallPrismTest(c[1], c[2], c[3])
  \/ \E incident \in UnitDirs : \E normal \in UnitDirs : \E eta \in Etas :
       CallRefract(incident, normal, eta)

SpecFn == InitFn /\ [][NextFn]_vars

(***************************************************************************)
(* Properties.                                                             *)
(***************************************************************************)
Cross2(a, b) == NSub(NMul(a.x, b.y), NMul(a.y, b.x))

SegVec(seg) == sub(seg.end, seg.start)
SegLen(seg) == NSqrt(dot(SegVec(seg), SegVec(seg)))

RECURSIVE SumLen(_, _)
SumLen(segs, n) == IF n = 0 THEN NInt(0) ELSE NAdd(SumLen(segs, n - 1), SegLen(segs[n]))

Traced == pc = "done"
Last(segs) == segs[Len(segs)]

\* The ray equation origin + t*dir = p1 + u*(p2 - p1), solved by Cramer's
\* rule for a ray and a segment that are not parallel.
GeoT(c) == NDiv(Cross2(sub(c.p1, c.origin), sub(c.p2, c.p1)), Cross2(c.dir, sub(c.p2, c.p1)))
GeoU(c) == NDiv(Cross2(sub(c.p1, c.origin), c.dir), Cross2(c.dir, sub(c.p2, c.p1)))
GeoSolves(c, t, u) ==
  add(c.origin, scale(t, c.dir)) = add(c.p1, scale(u, sub(c.p2, c.p1)))
GeoMeets(t, u) == NSign(t) >= 0 /\ NSign(u) >= 0 /\ NLe(u, NInt(1))

\* C1: for a ray and a segment that are not parallel, lineIntersect returns
\* a point exactly when some t >= 0 and u in [0,1] satisfy
\* origin + t*dir = p1 + u*(p2 - p1), and then returns that t, u and point.
C1_LineIntersectIsRaySegmentTest ==
  (call.fn = "lineIntersect" /\ NSign(Cross2(call.dir, sub(call.p2, call.p1))) # 0)
    => /\ GeoSolves(call, GeoT(call), GeoU(call))
       /\ ~ret.point.isNull <=> GeoMeets(GeoT(call), GeoU(call))
       /\ ~ret.point.isNull =>
            /\ ret.t = GeoT(call)
            /\ ret.u = GeoU(call)
            /\ ret.point.v = add(call.origin, scale(GeoT(call), call.dir))

\* The distance from the ray's origin to the prism's centre, and the radius.
CentreDist(c) == NSqrt(dot(sub(c.obj.position, c.origin), sub(c.obj.position, c.origin)))
Radius(c) == Rat(c.obj.size, 2)
AimedAtCentre(c) ==
  /\ NGt(CentreDist(c), Radius(c))
  /\ scale(CentreDist(c), c.dir) = sub(c.obj.position, c.origin)
  /\ NGt(NSub(CentreDist(c), Radius(c)), MinAdvance)

\* C2: a ray that starts outside a prism's disc and points at its centre
\* hits the prism on the near side, at t = distance to the centre - radius,
\* the hit point on the circle and the radial normal facing the ray.
C2_PrismNearSideHit ==
  (call.fn = "prismTest" /\ AimedAtCentre(call))
    => /\ ret.hitType = "prism"
       /\ ret.minT = NSub(CentreDist(call), Radius(call))
       /\ dot(sub(ret.hitPoint, call.obj.position), sub(ret.hitPoint, call.obj.position))
            = NMul(Radius(call), Radius(call))
       /\ NSign(dot(call.dir, ret.hitNormal)) < 0

\* The scene is one light, the target and one mirror at an odd multiple of
\* 45 degrees whose segment crosses the line of the ray ahead of the light.
CrossesAhead(light, seg) ==
  /\ NSign(NSub(seg.p1.y, light.position.y)) * NSign(NSub(seg.p2.y, light.position.y)) <= 0
  /\ seg.p1.y # seg.p2.y
  /\ NGt(NAdd(seg.p1.x,
              NDiv(NMul(NSub(light.position.y, seg.p1.y), NSub(seg.p2.x, seg.p1.x)),
                   NSub(seg.p2.y, seg.p1.y))),
         light.position.x)
OneMirror45Ahead ==
  /\ Len(objects) = 3
  /\ objects[3].type = "mirror"
  /\ NAbs(objects[3].rotation.cos) = NAbs(objects[3].rotation.sin)
  /\ CrossesAhead(objects[1], getMirrorSegment(objects[3]))

\* C3: with one light and one mirror at 45 degrees across the ray ahead of
\* the light, the trace of every wavelength is exactly two segments, light
\* to mirror and mirror onwards, at a right angle to each other.
C3_Mirror45TurnsRay ==
  (Traced /\ OneMirror45Ahead)
    => /\ Len(loop.segments) = 2
       /\ loop.segments[1].start = objects[1].position
       /\ loop.segments[2].start = loop.segments[1].end
       /\ NSign(dot(SegVec(loop.segments[1]), SegVec(loop.segments[2]))) = 0

\* C4: whenever refract returns a vector for unit incident and normal, the
\* vector has magnitude 1.
C4_RefractKeepsUnitLength ==
  (call.fn = "refract" /\ ~ret.isNull) => dot(ret.v, ret.v) = NInt(1)

\* The three ways the loop stops, each with what holds when it does.
StoppedOneWay ==
  \/ loop.exit = "nohit" /\ loop.lastHit = "none" /\ loop.bounce < maxBounces
  \/ /\ loop.exit = "length" /\ loop.lastHit # "none" /\ loop.bounce < maxBounces
     /\ NGt(loop.totalLength, NInt(maxLength))
  \/ /\ loop.exit = "bounces" /\ loop.lastHit # "none" /\ loop.bounce = maxBounces
     /\ NLe(loop.totalLength, NInt(maxLength))
LoopBounded ==
  /\ loop.bounce <= maxBounces
  /\ Len(loop.segments) <= maxBounces
  /\ Len(loop.segments) <= loop.bounce + 1
  /\ pc = "loop" => loop.exit = "run"
  /\ Traced => StoppedOneWay

\* C5: every call of traceRay returns: a pass of the loop either leaves the
\* loop or counts one bounce more, the count never passes 10, each pass adds
\* at most one segment, the result has at most 10 segments, and the loop
\* stops in exactly one of three ways (no hit, accumulated length over 1000
\* after a hit, 10 passes done).
C5_TraceTerminates ==
  /\ []LoopBounded
  /\ [][pc = "loop" => /\ Len(loop'.segments) <= Len(loop.segments) + 1
                       /\ pc' \in {"loop", "done"}
                       /\ pc' = "loop" => loop'.bounce = loop.bounce + 1]_vars

C5_TenPassesDone == Traced /\ loop.bounce = maxBounces

\* C6 as stated: a trace in which every pass of the loop found a hit has
\* exactly 10 segments and stopped at the bounce limit.
C6_AllHitsGiveTenSegments ==
  (Traced /\ loop.exit # "nohit")
    => Len(loop.segments) = maxBounces /\ loop.exit = "bounces"

\* C6, amended: a trace in which every pass found a hit either has exactly
\* 10 segments, one per pass, and stopped at the bounce limit with an
\* accumulated length of at most 1000, or stopped earlier at the hit that
\* took the accumulated length over 1000, with one segment per pass made.
C6_AllHitsTenSegmentsOrOverLength ==
  (Traced /\ loop.exit # "nohit")
    => \/ /\ loop.exit = "bounces"
          /\ Len(loop.segments) = maxBounces
          /\ NLe(loop.totalLength, NInt(maxLength))
       \/ /\ loop.exit = "length"
          /\ Len(loop.segments) = loop.bounce + 1
          /\ Len(loop.segments) <= maxBounces
          /\ NGt(loop.totalLength, NInt(maxLength))
          /\ NLe(NSub(loop.totalLength, SegLen(Last(loop.segments))), NInt(maxLength))

C6_RingStopsAtBounceLimit ==
  Traced /\ loop.exit = "bounces" /\ Len(loop.segments) = 10 /\ loop.lastHit = "mirror"

\* The final segment of a pass without a hit: from the current origin along
\* the current direction, of length maxLength - totalLength.
FinalSegment(seg) ==
  /\ seg.start = loop.origin
  /\ seg.end = add(loop.origin, scale(NSub(NInt(maxLength), loop.totalLength), loop.dir))
  /\ SegLen(seg) = NSub(NInt(maxLength), loop.totalLength)
NoObstacle == Len(objects) = 2
FullRay ==
  loop.segments =
    <<[start |-> objects[1].position,
       end |-> add(objects[1].position, IVec(maxLength, 0)),
       color |-> COLORS[colorIndex + 1]]>>

\* C7 as stated: a pass without a hit adds exactly one final segment of
\* length maxLength - totalLength and ends the trace; a scene without
\* mirror or prism gives one segment of length 1000 from the light along +x.
C7_NoHitEmitsOneFinalSegment ==
  /\ (Traced /\ loop.exit = "nohit")
       => /\ Len(loop.segments) = loop.bounce + 1
          /\ FinalSegment(Last(loop.segments))
  /\ (Traced /\ NoObstacle) => FullRay

\* C7, amended: a pass without a hit ends the trace, and adds exactly one
\* final segment of length maxLength - totalLength when totalLength is
\* under 1000, and no segment when totalLength is exactly 1000; a scene
\* without mirror or prism gives one segment of length 1000 from the light
\* along +x.
C7_NoHitEmitsFinalSegmentUnlessSpent ==
  /\ (Traced /\ loop.exit = "nohit")
       => IF NLt(loop.totalLength, NInt(maxLength))
            THEN /\ Len(loop.segments) = loop.bounce + 1
                 /\ FinalSegment(Last(loop.segments))
            ELSE /\ loop.totalLength = NInt(maxLength)
                 /\ Len(loop.segments) = loop.bounce
  /\ (Traced /\ NoObstacle) => FullRay

C7_EscapeAfterBounce ==
  /\ Traced /\ loop.exit = "nohit" /\ loop.bounce > 0
  /\ NLt(loop.totalLength, NInt(maxLength))
  /\ Len(loop.segments) = loop.bounce + 1

\* What the effect computes, on the scene as it is now: some segment of the
\* trace of every light and wavelength ends within size/2 + 5 of the centre
\* of the target.
DistSq(p, q) == dot(sub(p, q), sub(p, q))
SolvedNow ==
  LET Reached(segs) ==
        \E i \in 1..Len(objects) :
          /\ objects[i].type = "target"
          /\ \A j \in 1..(i - 1) : objects[j].type # "target"
          /\ \E k \in 1..Len(segs) :
               NLt(DistSq(segs[k].end, objects[i].position),
                   NMul(NAdd(Rat(objects[i].size, 2), NInt(5)),
                        NAdd(Rat(objects[i].size, 2), NInt(5))))
  IN  Reached(computeRays(objects))

\* C8: after every change of the scene through the UI, once the effect
\* that follows it has run, solved is true exactly when some segment of the
\* full trace of the current scene ends within target.size/2 + 5 of the
\* target's centre.
C8_SolvedIsOfCurrentScene == ~effect => (solved <=> SolvedNow)

\* The effect has found a changed scene solved, with events still to come.
C8_SolvedAfterChange == ~effect /\ solved /\ objects # Puzzle1 /\ events < MaxEvents

\* Scenes that differ from the current one only in the pose and size of the
\* targets and in the rotation and size of the lights.
Poses ==
  {[position |-> IVec(130, 300), targetRotation |-> 1, targetSize |-> 100,
    lightRotation |-> 2, lightSize |-> 200],
   [position |-> IVec(315, 300), targetRotation |-> -3, targetSize |-> 100,
    lightRotation |-> -1, lightSize |-> 60]}
Posed(objs, v) ==
  [i \in 1..Len(objs) |->
     IF objs[i].type = "target"
       THEN [objs[i] EXCEPT !.position = v.position,
                            !.rotation = Eighths(v.targetRotation),
                            !.size = v.targetSize]
     ELSE IF objs[i].type = "light"
       THEN [objs[i] EXCEPT !.rotation = Eighths(v.lightRotation), !.size = v.lightSize]
     ELSE objs[i]]

\* C9: computeRays returns the same segments for two scenes that differ
\* only in the position, rotation or size of targets or in the rotation or
\* size of lights.
C9_RaysIgnoreTargetsAndLightPose ==
  LET Same(segs) == \A v \in Poses : computeRays(Posed(objects, v)) = segs
  IN  Same(computeRays(objects))

C9_RotatedLightMovedTarget ==
  /\ \E i \in 1..Len(objects) :
       objects[i].type = "light" /\ objects[i].rotation # Eighths(0)
  /\ \E i \in 1..Len(objects) :
       objects[i].type = "target" /\ objects[i].position # Puzzle1[2].position

\* C10 as stated: the lengths of the segments of a trace sum to at most
\* maxLength = 1000.
C10_PathWithinBudget ==
  pc # "idle" => NLe(SumLen(loop.segments, Len(loop.segments)), NInt(maxLength))

\* C10, amended: the lengths of the segments of a trace sum to at most 1000
\* unless the trace stopped at a hit that took the accumulated length over
\* 1000; then the segments before that last one sum to at most 1000.
C10_PathWithinBudgetUpToLastHit ==
  pc # "idle"
    => /\ loop.exit # "length"
            => NLe(SumLen(loop.segments, Len(loop.segments)), NInt(maxLength))
       /\ loop.exit = "length"
            => /\ NLe(SumLen(loop.segments, Len(loop.segments) - 1), NInt(maxLength))
               /\ SumLen(loop.segments, Len(loop.segments)) = loop.totalLength

C10_LastHitOvershoots ==
  /\ Traced /\ loop.exit = "length"
  /\ NGt(SumLen(loop.segments, Len(loop.segments)), NInt(maxLength))

====
